---- MODULE Spec2Model ----
(***************************************************************************)
(* OSEMF_Comparison: three oemof.solph scripts (S1, T8784O, TI16O) that    *)
(* declare an energy system (buses, sources, sinks, transformers, flows),  *)
(* hand it to solph.Model, solve it and read the results back.            *)
(*                                                                         *)
(* The model has two layers.                                               *)
(*   - The scripts: their constants, the objects they build and the order  *)
(*     of their calls, taken from src/oemof/*.py.                          *)
(*   - The network-to-LP core the scripts call (registration, constraint   *)
(*     generation, objective, solver boundary).  Its code is not part of   *)
(*     src/; it is modelled from spec.md sections 3-7.                     *)
(* A fourth program, ADHOC, is a caller of the core that registers         *)
(* elements drawn from a small universe; it drives the core through the    *)
(* inputs the three scripts never supply (spec.md section 8 scenarios,     *)
(* colliding labels, a weighting of the wrong length).                     *)
(***************************************************************************)
EXTENDS Integers, Sequences, FiniteSets, TLC

(***************************************************************************)
(* Bounds of the model.                                                    *)
(***************************************************************************)
\* Timesteps of a horizon that the LP is expanded for (the horizons of
\* T8784O and TI16O are cut to their first MaxT timesteps).
MaxT == 2
\* Largest number of grid-chosen variables of one solution that differ from 0.
MaxDeviations == 1
\* Largest number of energysystem.add calls of the ADHOC caller.
MaxAdhocAdds == 5

\* Largest integer TLC computes with.
MaxInt32 == 2 * 1073741823 + 1

(***************************************************************************)
(* Decimal literals.  Dec(i, f, d) is the literal i.f with d fractional    *)
(* digits: 2.1101 is Dec(2, 1101, 4).  None is Python's None.              *)
(***************************************************************************)
Dec(i, f, d) == [i |-> i, f |-> f, d |-> d]
None == [i |-> 0, f |-> 0, d |-> -1]
IsNone(x) == x.d = -1
Zero == Dec(0, 0, 0)
One == Dec(1, 0, 0)

RECURSIVE Pow10(_)
Pow10(d) == IF d <= 0 THEN 1 ELSE 10 * Pow10(d - 1)

RECURSIVE GCD(_, _)
GCD(a, b) == IF b = 0 THEN a ELSE GCD(b, a % b)

\* A fraction n/d in lowest terms.
Frac(n, d) == LET g == GCD(n, d) IN [n |-> n \div g, d |-> d \div g]
\* The fractional part of a literal and the whole literal as fractions.
FracPart(x) == Frac(x.f, Pow10(x.d))
DecToFrac(x) == Frac(x.i * Pow10(x.d) + x.f, Pow10(x.d))

\* Whether the literal x is a whole number of units of 1/U that fits.
Representable(x, U) ==
    /\ x.i < MaxInt32 \div U
    /\ U % FracPart(x).d = 0
\* The literal x in units of 1/U.
ToUnits(x, U) == x.i * U + FracPart(x).n * (U \div FracPart(x).d)

\* v * (n/d) for the fraction q = n/d, exact; -1 when it is no whole number.
MulFrac(v, q) == IF v % q.d = 0 THEN (v \div q.d) * q.n ELSE -1

(***************************************************************************)
(* The objects the scripts build.  A dict is a function from its keys; a   *)
(* bus is named by its label.                                              *)
(***************************************************************************)
EmptyDict == [x \in {} |-> None]

\* actual_value of a flow: absent, a scalar literal, or a column of the CSV
\* file the script reads (data['BBWIND_P']).
NoValue == [src |-> "none", v |-> None, col |-> ""]
Scalar(x) == [src |-> "scalar", v |-> x, col |-> ""]
Column(c) == [src |-> "column", v |-> None, col |-> c]

\* solph.Investment(ep_costs=..., maximum=...): ep_costs is named by the epc_
\* variable it is read from; maximum None is float('+inf'); existing is 0.
NoInvestment == [on |-> FALSE, ep_costs |-> "", maximum |-> None, existing |-> Zero]
Investment(ep_costs, maximum) ==
    [on |-> TRUE, ep_costs |-> ep_costs, maximum |-> maximum, existing |-> Zero]

\* solph.Flow(nominal_value=, actual_value=, fixed=, variable_costs=, investment=)
Flow(nominal_value, actual_value, fixed, variable_costs, investment) ==
    [nominal_value |-> nominal_value, actual_value |-> actual_value,
     fixed |-> fixed, variable_costs |-> variable_costs,
     investment |-> investment]
\* solph.Flow()
Flow0 == Flow(None, NoValue, FALSE, None, NoInvestment)

Bus(label) ==
    [label |-> label, kind |-> "Bus", inputs |-> EmptyDict,
     outputs |-> EmptyDict, conversion_factors |-> EmptyDict]
Source(label, outputs) ==
    [label |-> label, kind |-> "Source", inputs |-> EmptyDict,
     outputs |-> outputs, conversion_factors |-> EmptyDict]
Sink(label, inputs) ==
    [label |-> label, kind |-> "Sink", inputs |-> inputs,
     outputs |-> EmptyDict, conversion_factors |-> EmptyDict]
Transformer(label, inputs, outputs, conversion_factors) ==
    [label |-> label, kind |-> "Transformer", inputs |-> inputs,
     outputs |-> outputs, conversion_factors |-> conversion_factors]

(***************************************************************************)
(* number_of_time_steps of each script.                                    *)
(***************************************************************************)
S1_number_of_time_steps == 1
T8784O_number_of_time_steps == 8784
TI16O_number_of_time_steps == 16

(***************************************************************************)
(* S1.py: the energysystem.add calls in the order of the script; each call *)
(* is the tuple of objects it adds.                                        *)
(***************************************************************************)
\* The DEMAND flow as it would be without fixed=True.
S1_DEMAND_flow_free == Flow(One, Scalar(Dec(2, 1101, 4)), FALSE, None, NoInvestment)
S1_DEMAND_flow == Flow(One, Scalar(Dec(2, 1101, 4)), TRUE, None, NoInvestment)
\* The sink as it would be under the label of the source.
S1_DEMAND_relabelled == Sink("GAS_IMPORT", "ELECTRICITY" :> S1_DEMAND_flow)
S1_DEMAND == Sink("DEMAND", "ELECTRICITY" :> S1_DEMAND_flow)
\* The power plant as it would be without nominal_value on its output.
S1_GAS_POWERPLANT_unbounded ==
    Transformer("GAS_POWERPLANT",
        "GAS" :> Flow0,
        "ELECTRICITY" :> Flow(None, NoValue, FALSE, Dec(9, 1202, 4), NoInvestment),
        ("ELECTRICITY" :> One) @@ ("GAS" :> Dec(1, 1101, 4)))
S1_GAS_POWERPLANT ==
    Transformer("GAS_POWERPLANT",
        "GAS" :> Flow0,
        "ELECTRICITY" :> Flow(Dec(3, 1101, 4), NoValue, FALSE, Dec(9, 1202, 4), NoInvestment),
        ("ELECTRICITY" :> One) @@ ("GAS" :> Dec(1, 1101, 4)))
S1_adds ==
    << << Bus("GAS"), Bus("ELECTRICITY") >>,
       << Source("GAS_IMPORT", "GAS" :> Flow0) >>,
       << S1_DEMAND >>,
       << S1_GAS_POWERPLANT >> >>
(***************************************************************************)
(* T8784O.py                                                               *)
(***************************************************************************)

T8784O_buses_BB ==
    << Bus("BBNaturalGas"), Bus("BBHardCoal"), Bus("BBLignite"), Bus("BBOil"),
       Bus("BBBiomass"), Bus("BBEL_SEC"), Bus("BBEL_FIN") >>

T8784O_buses_BE ==
    << Bus("BENaturalGas"), Bus("BEHardCoal"), Bus("BELignite"), Bus("BEOil"),
       Bus("BEBiomass"), Bus("BEEL_SEC"), Bus("BEEL_FIN") >>

T8784O_imports ==
    << << Source("rBBGAS_IMPORT", "BBNaturalGas" :> Flow0) >>,
       << Source("rBBHCO_IMPORT", "BBHardCoal" :> Flow0) >>,
       << Source("rBBLIG_IMPORT", "BBLignite" :> Flow0) >>,
       << Source("rBBOIL_IMPORT", "BBOil" :> Flow0) >>,
       << Source("rBBBIO_IMPORT", "BBBiomass" :> Flow0) >>,
       << Source("rBEGAS_IMPORT", "BENaturalGas" :> Flow0) >>,
       << Source("rBEHCO_IMPORT", "BEHardCoal" :> Flow0) >>,
       << Source("rBELIG_IMPORT", "BELignite" :> Flow0) >>,
       << Source("rBEOIL_IMPORT", "BEOil" :> Flow0) >>,
       << Source("rBEBIO_IMPORT", "BEBiomass" :> Flow0) >> >>

T8784O_renewables ==
    << << Source("BBWIND_P", "BBEL_SEC" :>
            Flow(Dec(6358, 14, 2), Column("BBWIND_P"), TRUE, None, NoInvestment)) >>,
       << Source("BBSOLPV_P", "BBEL_SEC" :>
            Flow(Dec(3205, 76, 2), Column("BBSOLPV_P"), TRUE, None, NoInvestment)) >>,
       << Source("BBRORHYD_P", "BBEL_SEC" :>
            Flow(Dec(4, 86, 2), Column("BBRORHYD_P"), TRUE, None, NoInvestment)) >>,
       << Source("BEWIND_P", "BEEL_SEC" :>
            Flow(Dec(12, 38, 2), Column("BEWIND_P"), TRUE, None, NoInvestment)) >>,
       << Source("BESOLPV_P", "BEEL_SEC" :>
            Flow(Dec(86, 95, 2), Column("BESOLPV_P"), TRUE, None, NoInvestment)) >> >>

\* The script as it would be without its excess sinks.
T8784O_excess_absent == << >>
T8784O_excess ==
    << << Sink("excess_BBEL_FIN", "BBEL_FIN" :> Flow0) >>,
       << Sink("excess_BEEL_FIN", "BEEL_FIN" :> Flow0) >> >>

T8784O_demand ==
    << << Sink("demand_BBEL_FIN", "BBEL_FIN" :>
            Flow(One, Column("demand_BBEL_FIN"), TRUE, None, NoInvestment)) >>,
       << Sink("demand_BEEL_FIN", "BEEL_FIN" :>
            Flow(One, Column("demand_BEEL_FIN"), TRUE, None, NoInvestment)) >> >>

T8784O_plants ==
    << << Transformer("BBNGA_P", "BBNaturalGas" :> Flow0,
            "BBEL_SEC" :> Flow(Dec(733, 3, 1), NoValue, FALSE, Dec(19, 89, 2), NoInvestment),
            "BBEL_SEC" :> Dec(0, 581395349, 9)) >>,
       << Transformer("BBHCO_P", "BBHardCoal" :> Flow0,
            "BBEL_SEC" :> Flow(Dec(0, 0, 0), NoValue, FALSE, Dec(11, 24, 2), NoInvestment),
            "BBEL_SEC" :> Dec(0, 460829493, 9)) >>,
       << Transformer("BBLIG_P", "BBLignite" :> Flow0,
            "BBEL_SEC" :> Flow(Dec(4409, 0, 0), NoValue, FALSE, Dec(4, 72, 2), NoInvestment),
            "BBEL_SEC" :> Dec(0, 429184549, 9)) >>,
       << Transformer("BBOIL_P", "BBOil" :> Flow0,
            "BBEL_SEC" :> Flow(Dec(333, 5, 1), NoValue, FALSE, Dec(25, 17, 2), NoInvestment),
            "BBEL_SEC" :> Dec(0, 383141762, 9)) >>,
       << Transformer("BBBIO_P", "BBBiomass" :> Flow0,
            "BBEL_SEC" :> Flow(Dec(439, 8, 1), NoValue, FALSE, Dec(30, 18, 2), NoInvestment),
            "BBEL_SEC" :> Dec(0, 4, 1)) >>,
       << Transformer("BENGA_P", "BENaturalGas" :> Flow0,
            "BEEL_SEC" :> Flow(Dec(1040, 0, 0), NoValue, FALSE, Dec(19, 89, 2), NoInvestment),
            "BEEL_SEC" :> Dec(0, 581395349, 9)) >>,
       << Transformer("BEHCO_P", "BEHardCoal" :> Flow0,
            "BEEL_SEC" :> Flow(Dec(777, 0, 0), NoValue, FALSE, Dec(11, 24, 2), NoInvestment),
            "BEEL_SEC" :> Dec(0, 460829493, 9)) >>,
       << Transformer("BELIG_P", "BELignite" :> Flow0,
            "BEEL_SEC" :> Flow(Dec(0, 0, 0), NoValue, FALSE, Dec(4, 72, 2), NoInvestment),
            "BEEL_SEC" :> Dec(0, 429184549, 9)) >>,
       << Transformer("BEOIL_P", "BEOil" :> Flow0,
            "BEEL_SEC" :> Flow(Dec(327, 0, 0), NoValue, FALSE, Dec(25, 17, 2), NoInvestment),
            "BEEL_SEC" :> Dec(0, 383141762, 9)) >>,
       << Transformer("BEBIO_P", "BEBiomass" :> Flow0,
            "BEEL_SEC" :> Flow(Dec(45, 19, 2), NoValue, FALSE, Dec(30, 18, 2), NoInvestment),
            "BEEL_SEC" :> Dec(0, 4, 1)) >> >>

T8784O_lines ==
    << << Transformer("BBTRANS", "BBEL_SEC" :> Flow0,
            "BBEL_FIN" :> Flow(None, NoValue, FALSE, Dec(0, 0, 0), NoInvestment),
            "BBEL_FIN" :> Dec(0, 9, 1)) >>,
       << Transformer("BBINT", "BEEL_SEC" :> Flow0,
            "BBEL_SEC" :> Flow(Dec(3000, 0, 0), NoValue, FALSE, Dec(2, 0, 0), NoInvestment),
            "BBEL_SEC" :> Dec(1, 0, 0)) >>,
       << Transformer("BETRANS", "BEEL_SEC" :> Flow0,
            "BEEL_FIN" :> Flow(None, NoValue, FALSE, Dec(0, 0, 0), NoInvestment),
            "BEEL_FIN" :> Dec(0, 9, 1)) >>,
       << Transformer("BEINT", "BBEL_SEC" :> Flow0,
            "BEEL_SEC" :> Flow(Dec(3000, 0, 0), NoValue, FALSE, Dec(1, 0, 0), NoInvestment),
            "BEEL_SEC" :> Dec(1, 0, 0)) >> >>

T8784O_backstop ==
    << << Transformer("BBBACKSTOP_FIN", EmptyDict,
            "BBEL_FIN" :> Flow(Dec(999999999, 0, 0), NoValue, FALSE, Dec(1000000000, 0, 0), NoInvestment),
            "BBEL_FIN" :> One) >>,
       << Transformer("BEBACKSTOP_FIN", EmptyDict,
            "BEEL_FIN" :> Flow(Dec(999999999, 0, 0), NoValue, FALSE, Dec(1000000000, 0, 0), NoInvestment),
            "BEEL_FIN" :> One) >> >>

T8784O_adds ==
    << T8784O_buses_BB, T8784O_buses_BE >> \o T8784O_imports \o T8784O_renewables
        \o T8784O_excess \o T8784O_demand \o T8784O_plants \o T8784O_lines
        \o T8784O_backstop

(***************************************************************************)
(* TI16O.py                                                                *)
(***************************************************************************)

\* var_section_length as it would be with its last entry missing.
var_section_length_short ==
    << Dec(360, 0, 1), Dec(360, 0, 1), Dec(540, 0, 1), Dec(900, 0, 1),
       Dec(552, 0, 1), Dec(368, 0, 1), Dec(552, 0, 1), Dec(736, 0, 1),
       Dec(460, 0, 1), Dec(276, 0, 1), Dec(552, 0, 1), Dec(920, 0, 1),
       Dec(276, 0, 1), Dec(276, 0, 1), Dec(368, 0, 1) >>
\* var_section_length as it would be for a year of 8760 hours.
var_section_length_8760 ==
    << Dec(360, 0, 1), Dec(360, 0, 1), Dec(540, 0, 1), Dec(900, 0, 1),
       Dec(552, 0, 1), Dec(368, 0, 1), Dec(552, 0, 1), Dec(736, 0, 1),
       Dec(460, 0, 1), Dec(276, 0, 1), Dec(552, 0, 1), Dec(920, 0, 1),
       Dec(276, 0, 1), Dec(276, 0, 1), Dec(368, 0, 1), Dec(1264, 0, 1) >>
var_section_length ==
    << Dec(360, 0, 1), Dec(360, 0, 1), Dec(540, 0, 1), Dec(900, 0, 1),
       Dec(552, 0, 1), Dec(368, 0, 1), Dec(552, 0, 1), Dec(736, 0, 1),
       Dec(460, 0, 1), Dec(276, 0, 1), Dec(552, 0, 1), Dec(920, 0, 1),
       Dec(276, 0, 1), Dec(276, 0, 1), Dec(368, 0, 1), Dec(1288, 0, 1) >>

TI16O_buses_BB ==
    << Bus("BBNaturalGas"), Bus("BBHardCoal"), Bus("BBLignite"), Bus("BBOil"),
       Bus("BBBiomass"), Bus("BBEL_SEC"), Bus("BBEL_FIN") >>

TI16O_buses_BE ==
    << Bus("BENaturalGas"), Bus("BEHardCoal"), Bus("BELignite"), Bus("BEOil"),
       Bus("BEBiomass"), Bus("BEEL_SEC"), Bus("BEEL_FIN") >>

TI16O_imports ==
    << << Source("rBBGAS_IMPORT", "BBNaturalGas" :> Flow0) >>,
       << Source("rBBHCO_IMPORT", "BBHardCoal" :> Flow0) >>,
       << Source("rBBLIG_IMPORT", "BBLignite" :> Flow0) >>,
       << Source("rBBOIL_IMPORT", "BBOil" :> Flow0) >>,
       << Source("rBBBIO_IMPORT", "BBBiomass" :> Flow0) >>,
       << Source("rBEGAS_IMPORT", "BENaturalGas" :> Flow0) >>,
       << Source("rBEHCO_IMPORT", "BEHardCoal" :> Flow0) >>,
       << Source("rBELIG_IMPORT", "BELignite" :> Flow0) >>,
       << Source("rBEOIL_IMPORT", "BEOil" :> Flow0) >>,
       << Source("rBEBIO_IMPORT", "BEBiomass" :> Flow0) >> >>

\* economics.annuity(capex=, n=, wacc=) of each epc_ variable; the annuity's
\* value is not computed, an ep_costs is the variable it is read from.
annuity(capex, n, wacc) == [capex |-> capex, n |-> n, wacc |-> wacc]
TI16O_epc ==
    ("epc_BBNGA_P" :> annuity(600000, 30, Dec(0, 7, 2)))
    @@ ("epc_BBHCO_P" :> annuity(1800000, 40, Dec(0, 7, 2)))
    @@ ("epc_BBLIG_P" :> annuity(1800000, 40, Dec(0, 7, 2)))
    @@ ("epc_BBOIL_P" :> annuity(950000, 30, Dec(0, 7, 2)))
    @@ ("epc_BBBIO_P" :> annuity(3700000, 30, Dec(0, 7, 2)))
    @@ ("epc_BBSOLPV_P" :> annuity(1460000, 25, Dec(0, 7, 2)))
    @@ ("epc_BBWIND_P" :> annuity(1330000, 25, Dec(0, 7, 2)))
    @@ ("epc_BBRORHYD_P" :> annuity(2925000, 30, Dec(0, 7, 2)))
    @@ ("epc_BENGA_P" :> annuity(600000, 30, Dec(0, 7, 2)))
    @@ ("epc_BEHCO_P" :> annuity(1800000, 40, Dec(0, 7, 2)))
    @@ ("epc_BELIG_P" :> annuity(1800000, 40, Dec(0, 7, 2)))
    @@ ("epc_BEOIL_P" :> annuity(950000, 30, Dec(0, 7, 2)))
    @@ ("epc_BEBIO_P" :> annuity(6700000, 30, Dec(0, 7, 2)))
    @@ ("epc_BESOLPV_P" :> annuity(1340000, 25, Dec(0, 7, 2)))
    @@ ("epc_BEWIND_P" :> annuity(1330000, 25, Dec(0, 7, 2)))

TI16O_renewables ==
    << << Source("BBWIND_P", "BBEL_SEC" :>
            Flow(None, Column("BBWIND_P"), TRUE, None, Investment("epc_BBWIND_P", None))) >>,
       << Source("BBSOLPV_P", "BBEL_SEC" :>
            Flow(None, Column("BBSOLPV_P"), TRUE, None, Investment("epc_BBSOLPV_P", None))) >>,
       << Source("BBRORHYD_P", "BBEL_SEC" :>
            Flow(None, Column("BBRORHYD_P"), TRUE, None, Investment("epc_BBRORHYD_P", None))) >>,
       << Source("BEWIND_P", "BEEL_SEC" :>
            Flow(None, Column("BEWIND_P"), TRUE, None, Investment("epc_BEWIND_P", None))) >>,
       << Source("BESOLPV_P", "BEEL_SEC" :>
            Flow(None, Column("BESOLPV_P"), TRUE, None, Investment("epc_BESOLPV_P", None))) >> >>

TI16O_excess ==
    << << Sink("excess_BBEL_FIN", "BBEL_FIN" :> Flow0) >>,
       << Sink("excess_BEEL_FIN", "BEEL_FIN" :> Flow0) >> >>

TI16O_demand ==
    << << Sink("demand_BBEL_FIN", "BBEL_FIN" :>
            Flow(One, Column("demand_BBEL_FIN"), TRUE, None, NoInvestment)) >>,
       << Sink("demand_BEEL_FIN", "BEEL_FIN" :>
            Flow(One, Column("demand_BEEL_FIN"), TRUE, None, NoInvestment)) >> >>

\* BBHCO_P as it would be without maximum=0.
TI16O_BBHCO_P_unbounded ==
    Transformer("BBHCO_P", "BBHardCoal" :> Flow0,
        "BBEL_SEC" :> Flow(None, NoValue, FALSE, Dec(11, 24, 2), Investment("epc_BBHCO_P", None)),
        "BBEL_SEC" :> Dec(0, 460829493, 9))
TI16O_BBHCO_P ==
    Transformer("BBHCO_P", "BBHardCoal" :> Flow0,
        "BBEL_SEC" :> Flow(None, NoValue, FALSE, Dec(11, 24, 2), Investment("epc_BBHCO_P", Dec(0, 0, 0))),
        "BBEL_SEC" :> Dec(0, 460829493, 9))

TI16O_plants ==
    << << Transformer("BBNGA_P", "BBNaturalGas" :> Flow0,
            "BBEL_SEC" :> Flow(None, NoValue, FALSE, Dec(19, 89, 2), Investment("epc_BESOLPV_P", None)),
            "BBEL_SEC" :> Dec(0, 581395349, 9)) >>,
       << TI16O_BBHCO_P >>,
       << Transformer("BBLIG_P", "BBLignite" :> Flow0,
            "BBEL_SEC" :> Flow(None, NoValue, FALSE, Dec(4, 72, 2), Investment("epc_BBLIG_P", None)),
            "BBEL_SEC" :> Dec(0, 429184549, 9)) >>,
       << Transformer("BBOIL_P", "BBOil" :> Flow0,
            "BBEL_SEC" :> Flow(None, NoValue, FALSE, Dec(25, 17, 2), Investment("epc_BBOIL_P", None)),
            "BBEL_SEC" :> Dec(0, 383141762, 9)) >>,
       << Transformer("BBBIO_P", "BBBiomass" :> Flow0,
            "BBEL_SEC" :> Flow(None, NoValue, FALSE, Dec(30, 18, 2), Investment("epc_BBBIO_P", None)),
            "BBEL_SEC" :> Dec(0, 4, 1)) >>,
       << Transformer("BENGA_P", "BENaturalGas" :> Flow0,
            "BEEL_SEC" :> Flow(None, NoValue, FALSE, Dec(19, 89, 2), Investment("epc_BENGA_P", None)),
            "BEEL_SEC" :> Dec(0, 581395349, 9)) >>,
       << Transformer("BEHCO_P", "BEHardCoal" :> Flow0,
            "BEEL_SEC" :> Flow(None, NoValue, FALSE, Dec(11, 24, 2), Investment("epc_BEHCO_P", None)),
            "BEEL_SEC" :> Dec(0, 460829493, 9)) >>,
       << Transformer("BELIG_P", "BELignite" :> Flow0,
            "BEEL_SEC" :> Flow(None, NoValue, FALSE, Dec(4, 72, 2), Investment("epc_BELIG_P", Dec(0, 0, 0))),
            "BEEL_SEC" :> Dec(0, 429184549, 9)) >>,
       << Transformer("BEOIL_P", "BEOil" :> Flow0,
            "BEEL_SEC" :> Flow(None, NoValue, FALSE, Dec(25, 17, 2), Investment("epc_BEOIL_P", None)),
            "BEEL_SEC" :> Dec(0, 383141762, 9)) >>,
       << Transformer("BEBIO_P", "BEBiomass" :> Flow0,
            "BEEL_SEC" :> Flow(None, NoValue, FALSE, Dec(30, 18, 2), Investment("epc_BEBIO_P", None)),
            "BEEL_SEC" :> Dec(0, 4, 1)) >> >>

TI16O_lines ==
    << << Transformer("BBTRANS", "BBEL_SEC" :> Flow0,
            "BBEL_FIN" :> Flow(None, NoValue, FALSE, Dec(0, 0, 0), NoInvestment),
            "BBEL_FIN" :> Dec(0, 9, 1)) >>,
       << Transformer("BBINT", "BEEL_SEC" :> Flow0,
            "BBEL_SEC" :> Flow(Dec(3000, 0, 0), NoValue, FALSE, Dec(2, 0, 0), NoInvestment),
            "BBEL_SEC" :> Dec(1, 0, 0)) >>,
       << Transformer("BETRANS", "BEEL_SEC" :> Flow0,
            "BEEL_FIN" :> Flow(None, NoValue, FALSE, Dec(0, 0, 0), NoInvestment),
            "BEEL_FIN" :> Dec(0, 9, 1)) >>,
       << Transformer("BEINT", "BBEL_SEC" :> Flow0,
            "BEEL_SEC" :> Flow(Dec(3000, 0, 0), NoValue, FALSE, Dec(1, 0, 0), NoInvestment),
            "BEEL_SEC" :> Dec(1, 0, 0)) >> >>

TI16O_backstop ==
    << << Transformer("BBBACKSTOP_FIN", EmptyDict,
            "BBEL_FIN" :> Flow(Dec(999999999, 0, 0), NoValue, FALSE, Dec(1000000000, 0, 0), NoInvestment),
            "BBEL_FIN" :> One) >>,
       << Transformer("BEBACKSTOP_FIN", EmptyDict,
            "BEEL_FIN" :> Flow(Dec(999999999, 0, 0), NoValue, FALSE, Dec(1000000000, 0, 0), NoInvestment),
            "BEEL_FIN" :> One) >> >>

TI16O_adds ==
    << TI16O_buses_BB, TI16O_buses_BE >> \o TI16O_imports \o TI16O_renewables
        \o TI16O_excess \o TI16O_demand \o TI16O_plants \o TI16O_lines
        \o TI16O_backstop

(***************************************************************************)
(* The programs and the state of one run.                                  *)
(***************************************************************************)
VARIABLES
    prog,       \* the program that runs: a script, or the ADHOC caller
    pc,         \* the place of the run in its program
    k,          \* the number of energysystem.add calls made
    data,       \* the rows of the CSV file the flows take their columns from
                \* (data in T8784O, data_inv in TI16O), one per timestep
    es,         \* energysystem: the registered buses and nodes, in order
    error,      \* the error that ended the run, "none" while there is none
    model,      \* the Model built from the energy system, NoModel before
    results,    \* the solver's values, one per variable of the model
    meta,       \* the solver's status
    stored,     \* energysystem.results
    lpfile,     \* the LP file written by model.write
    dumpfile,   \* the file written by energysystem.dump(dpath=None, filename=None)
    views,      \* what outputlib.views.node returned, by label asked for
    peer        \* a second run, of another script, while it is not the one
                \* that steps: its own prog, pc, ..., views; NoPeer when the
                \* run is alone.  Both runs use the one default dump file.

vars == << prog, pc, k, data, es, error, model, results, meta, stored, lpfile,
           dumpfile, views, peer >>

Scripts == {"S1", "T8784O", "TI16O"}
Programs == Scripts \cup {"ADHOC"}

number_of_time_steps(p) ==
    CASE p = "S1" -> S1_number_of_time_steps
      [] p = "T8784O" -> T8784O_number_of_time_steps
      [] p = "TI16O" -> TI16O_number_of_time_steps
      [] OTHER -> 1

adds(p) ==
    CASE p = "S1" -> S1_adds
      [] p = "T8784O" -> T8784O_adds
      [] p = "TI16O" -> TI16O_adds
      [] OTHER -> << >>

\* The timesteps the LP is expanded for.
Horizon(n) == IF n < MaxT THEN n ELSE MaxT

\* Flow values are whole numbers of 1/Unit(p): 1e-8 in S1 (2.1101 * 1.1101 has
\* eight decimals), 1e-4 in T8784O and TI16O, 1/900 for the ADHOC caller (a
\* demand of 10 behind a factor of 0.9 needs ninths, 2.11 needs hundredths).
Unit(p) ==
    CASE p = "S1" -> 100000000
      [] p \in {"T8784O", "TI16O"} -> 10000
      [] OTHER -> 900

(***************************************************************************)
(* Graph Model (spec.md 4.1): registration of buses and nodes.             *)
(***************************************************************************)
Labels(e) == {e[i].label : i \in 1..Len(e)}
BusLabels(e) == {e[i].label : i \in {j \in 1..Len(e) : e[j].kind = "Bus"}}

\* The error registering n in e fails with, "none" when it is accepted.
RegisterError(e, n) ==
    IF n.label \in Labels(e) THEN "DuplicateLabelError"
    ELSE IF ~((DOMAIN n.inputs \cup DOMAIN n.outputs) \subseteq BusLabels(e))
         THEN "DanglingReferenceError"
    ELSE "none"

\* energysystem.add(*nodes): the nodes are registered in order, up to the
\* first one that is rejected.
RECURSIVE add(_, _)
add(st, nodes) ==
    IF nodes = << >> \/ st.error # "none" THEN st
    ELSE LET n == Head(nodes)
             err == RegisterError(st.es, n)
         IN  add(IF err = "none"
                 THEN [es |-> Append(st.es, n), error |-> "none"]
                 ELSE [es |-> st.es, error |-> err],
                 Tail(nodes))

(***************************************************************************)
(* Model construction (spec.md 4.2 - 4.5).                                 *)
(***************************************************************************)
RECURSIVE SeqOf(_)
SeqOf(S) == IF S = {} THEN << >>
            ELSE LET x == CHOOSE y \in S : TRUE IN << x >> \o SeqOf(S \ {x})

\* The flows of node n as edge records: its inputs (bus -> n), its outputs
\* (n -> bus).
NodeFlows(n) ==
    LET ins == SeqOf(DOMAIN n.inputs)
        outs == SeqOf(DOMAIN n.outputs)
    IN  [i \in 1..Len(ins) |->
            [from |-> ins[i], to |-> n.label, attr |-> n.inputs[ins[i]]]]
        \o [i \in 1..Len(outs) |->
            [from |-> n.label, to |-> outs[i], attr |-> n.outputs[outs[i]]]]

\* The flows of nodes a..b of e, in registration order of their nodes.
RECURSIVE FlowsOf(_, _, _)
FlowsOf(e, a, b) ==
    IF a > b THEN << >>
    ELSE IF a = b THEN NodeFlows(e[a])
    ELSE LET mid == (a + b) \div 2
         IN  FlowsOf(e, a, mid) \o FlowsOf(e, mid + 1, b)
\* All flows, in registration order of their nodes.
FLOWS(e) == FlowsOf(e, 1, Len(e))

\* objective_weighting as passed to solph.Model: absent, or a sequence.
NoWeighting == [given |-> FALSE, seq |-> << >>]
Weighting(w) == [given |-> TRUE, seq |-> w]

\* Whether x <= y for two literals that are not None.
DecLeq(x, y) ==
    \/ x.i < y.i
    \/ /\ x.i = y.i
       /\ FracPart(x).n * FracPart(y).d <= FracPart(y).n * FracPart(x).d

\* An Investment whose maximum is finite and below its existing capacity.
InvalidInvestmentBounds(a) ==
    /\ a.investment.on
    /\ ~IsNone(a.investment.maximum)
    /\ ~DecLeq(a.investment.existing, a.investment.maximum)

\* The configuration error compiling (e, n timesteps, weighting w) fails with.
CompileError(e, n, w) ==
    IF w.given /\ Len(w.seq) # n THEN "WeightingLengthError"
    ELSE IF LET fl == FLOWS(e)
            IN  \E i \in 1..Len(fl) : InvalidInvestmentBounds(fl[i].attr)
         THEN "InvalidInvestmentBoundsError"
    ELSE "none"

\* period_weight(t): 1 unless a weighting is passed.
PeriodWeight(w, t) == IF w.given THEN w.seq[t] ELSE One

\* Objective Assembler (4.5): the linear expression as its terms.  A flow
\* without a variable cost has no term.
ObjectiveVariable(fl, T, w) ==
    {[from |-> fl[i].from, to |-> fl[i].to, t |-> t,
      variable_costs |-> fl[i].attr.variable_costs,
      weight |-> PeriodWeight(w, t)] :
        i \in {j \in 1..Len(fl) : ~IsNone(fl[j].attr.variable_costs)},
        t \in 1..T}
ObjectiveInvestment(fl) ==
    {[from |-> fl[i].from, to |-> fl[i].to,
      ep_costs |-> fl[i].attr.investment.ep_costs] :
        i \in {j \in 1..Len(fl) : fl[j].attr.investment.on}}

NoModel == [built |-> FALSE]
\* solph.Model(energysystem[, objective_weighting=w]) on a horizon of n
\* timesteps, profile rows d, flow unit 1/U.  inflows and outflows are the
\* traversal of 4.1: for each label, the flows into and out of it.
Model(e, n, w, d, U) ==
    LET fl == FLOWS(e)
    IN  [built |-> TRUE, nodes |-> e, flows |-> fl, steps |-> n,
         T |-> Horizon(n),
         buses |-> BusLabels(e),
         inflows |-> [l \in Labels(e) |-> {i \in 1..Len(fl) : fl[i].to = l}],
         outflows |-> [l \in Labels(e) |-> {i \in 1..Len(fl) : fl[i].from = l}],
         objective_weighting |-> [t \in 1..Horizon(n) |-> PeriodWeight(w, t)],
         objective |-> [variable |-> ObjectiveVariable(fl, Horizon(n), w),
                        investment |-> ObjectiveInvestment(fl)],
         data |-> d, unit |-> U]

(***************************************************************************)
(* The variables and constraints of a Model.  A solution x gives a whole   *)
(* number of units to every variable: FV(m, i, t) is flow i at timestep t, *)
(* IV(m, i) is the added capacity of investable flow i.                    *)
(***************************************************************************)
NF(m) == Len(m.flows)
FV(m, i, t) == (t - 1) * NF(m) + i
IV(m, i) == m.T * NF(m) + i
Investable(m) == {i \in 1..NF(m) : m.flows[i].attr.investment.on}
Vars(m) == 1..(m.T * NF(m)) \cup {IV(m, i) : i \in Investable(m)}

RECURSIVE Sum(_, _)
Sum(S, x) == IF S = {} THEN 0
             ELSE LET v == CHOOSE y \in S : TRUE IN x[v] + Sum(S \ {v}, x)

\* Whether v units are at most the literal cap (which may exceed what fits).
LeqCap(v, cap, U) ==
    \/ v \div U < cap.i
    \/ /\ v \div U = cap.i
       /\ v % U <= FracPart(cap).n * (U \div FracPart(cap).d)

\* The test as it would be if the fixed flag were ignored.
IsFixed_ignored(a) == FALSE
\* A flow that is pinned to its profile: fixed, with a profile and a capacity.
IsFixed(a) ==
    /\ a.fixed
    /\ a.actual_value.src # "none"
    /\ (a.investment.on \/ ~IsNone(a.nominal_value))

\* profile[t] of a flow, as a fraction; a scalar applies to every t.
Profile(m, a, t) ==
    IF a.actual_value.src = "scalar" THEN DecToFrac(a.actual_value.v)
    ELSE DecToFrac(m.data[t][a.actual_value.col])

\* The capacity of flow i under x: existing + added when it is investable,
\* its nominal value otherwise.
Capacity(m, x, i) ==
    LET a == m.flows[i].attr
    IN  IF a.investment.on
        THEN ToUnits(a.investment.existing, m.unit) + x[IV(m, i)]
        ELSE ToUnits(a.nominal_value, m.unit)

\* The builder as it would be without the upper bound of a free flow.
FlowConstraint_unbounded(m, x, i, t) ==
    LET a == m.flows[i].attr
        v == x[FV(m, i, t)]
    IN  /\ v >= 0
        /\ IsFixed(a) => v = MulFrac(Capacity(m, x, i), Profile(m, a, t))

\* Flow Constraint Builder (4.2): flow i at t.
FlowConstraint(m, x, i, t) ==
    LET a == m.flows[i].attr
        v == x[FV(m, i, t)]
    IN  /\ v >= 0
        /\ IF IsFixed(a) THEN v = MulFrac(Capacity(m, x, i), Profile(m, a, t))
           ELSE IF a.investment.on THEN v <= Capacity(m, x, i)
           ELSE IF ~IsNone(a.nominal_value) THEN LeqCap(v, a.nominal_value, m.unit)
           ELSE TRUE

\* Investment Extension (4.4): the added capacity of flow i.
InvestmentConstraint(m, x, i) ==
    LET inv == m.flows[i].attr.investment
    IN  /\ x[IV(m, i)] >= 0
        /\ IsNone(inv.maximum) \/ LeqCap(x[IV(m, i)], inv.maximum, m.unit)

\* The traversal as it would be if the flows into a label were read from the
\* flows out of it.
InFlows_swapped(m, b) == m.outflows[b]
\* Balance Constraint Builder (4.3): bus b at t.
InFlows(m, b) == m.inflows[b]
OutFlows(m, b) == m.outflows[b]
BalanceConstraint(m, x, b, t) ==
    Sum({FV(m, i, t) : i \in InFlows(m, b)}, x)
        = Sum({FV(m, i, t) : i \in OutFlows(m, b)}, x)

\* The factor as it would be if conversion_factors were ignored.
Factor_ignored(n, b) == Frac(1, 1)
\* The conversion factor of node n for bus b; 1 when it has no entry.
Factor(n, b) ==
    IF b \in DOMAIN n.conversion_factors
    THEN DecToFrac(n.conversion_factors[b]) ELSE Frac(1, 1)
\* output / input of node n from input bus bi to output bus bo.
Ratio(n, bi, bo) ==
    Frac(Factor(n, bo).n * Factor(n, bi).d, Factor(n, bo).d * Factor(n, bi).n)
Inverse(q) == Frac(q.d, q.n)

Converters(m) == {j \in 1..Len(m.nodes) : m.nodes[j].kind = "Transformer"}
\* Converter relation of node j for its input flow i and output flow o at t:
\* input * factor(output bus) = output * factor(input bus).
ConversionConstraint(m, x, j, i, o, t) ==
    MulFrac(x[FV(m, i, t)], Ratio(m.nodes[j], m.flows[i].from, m.flows[o].to))
        = x[FV(m, o, t)]

\* Every constraint of the compiled model holds under x.
Feasible(m, x) ==
    /\ \A i \in 1..NF(m), t \in 1..m.T : FlowConstraint(m, x, i, t)
    /\ \A i \in Investable(m) : InvestmentConstraint(m, x, i)
    /\ \A b \in m.buses, t \in 1..m.T : BalanceConstraint(m, x, b, t)
    /\ \A j \in Converters(m), t \in 1..m.T :
         \A i \in InFlows(m, m.nodes[j].label), o \in OutFlows(m, m.nodes[j].label) :
            ConversionConstraint(m, x, j, i, o, t)

\* The sum of two fractions.
FracAdd(p, q) == Frac(p.n * q.d + q.n * p.d, p.d * q.d)
\* The value under x of the variable-cost terms S of the objective, in flow
\* units: the sum of flow(t) x variable_cost x period_weight(t).
RECURSIVE VariableCosts(_, _, _)
VariableCosts(m, x, S) ==
    IF S = {} THEN Frac(0, 1)
    ELSE LET c == CHOOSE d \in S : TRUE
             i == CHOOSE j \in 1..NF(m) :
                     m.flows[j].from = c.from /\ m.flows[j].to = c.to
             cost == DecToFrac(c.variable_costs)
             w == DecToFrac(c.weight)
         IN  FracAdd(Frac(x[FV(m, i, c.t)] * cost.n * w.n, cost.d * w.d),
                     VariableCosts(m, x, S \ {c}))

(***************************************************************************)
(* The solver boundary (4.6).  The external solver is modelled by the      *)
(* points of the feasible region it may return: every assignment found by  *)
(* propagating the equalities (a variable that is the only unassigned one  *)
(* of an equality gets the value the equality forces) and choosing the     *)
(* remaining variables from a grid.  Every point kept satisfies Feasible.  *)
(***************************************************************************)
FlowOf(m, v) == ((v - 1) % NF(m)) + 1
StepOf(m, v) == ((v - 1) \div NF(m)) + 1
IsFlowVar(m, v) == v <= m.T * NF(m)

\* An equality solved for one variable: the value it forces is the constant c
\* ("const"), (c + x[o]) * q ("mul"), or the sum of x over plus less the sum
\* over minus ("lin"); deps are the variables it reads.
Rule(kind, c, o, q, plus, minus) ==
    [kind |-> kind, c |-> c, o |-> o, q |-> q, plus |-> plus, minus |-> minus,
     deps |-> IF kind = "mul" THEN {o} ELSE plus \cup minus]
NodeIndex(m, l) == {j \in 1..Len(m.nodes) : m.nodes[j].label = l}

\* The equalities that can force flow variable v, each solved for v.
Rules(m, v) ==
    IF ~IsFlowVar(m, v) THEN {}
    ELSE
    LET i == FlowOf(m, v)
        t == StepOf(m, v)
        f == m.flows[i]
        a == f.attr
        at(S) == {FV(m, o, t) : o \in S}
        one == Frac(1, 1)
    IN  (IF IsFixed(a)
         THEN IF a.investment.on
              THEN {Rule("mul", ToUnits(a.investment.existing, m.unit), IV(m, i),
                         Profile(m, a, t), {}, {})}
              ELSE {Rule("const",
                         MulFrac(ToUnits(a.nominal_value, m.unit), Profile(m, a, t)),
                         0, one, {}, {})}
         ELSE {})
        \cup (IF f.to \in m.buses
              THEN {Rule("lin", 0, 0, one, at(OutFlows(m, f.to)),
                         at(InFlows(m, f.to) \ {i}))}
              ELSE {})
        \cup (IF f.from \in m.buses
              THEN {Rule("lin", 0, 0, one, at(InFlows(m, f.from)),
                         at(OutFlows(m, f.from) \ {i}))}
              ELSE {})
        \cup {Rule("mul", 0, FV(m, o, t),
                   Inverse(Ratio(m.nodes[j], f.from, m.flows[o].to)), {}, {}) :
                j \in {n \in NodeIndex(m, f.to) : n \in Converters(m)},
                o \in OutFlows(m, f.to)}
        \cup {Rule("mul", 0, FV(m, o, t),
                   Ratio(m.nodes[j], m.flows[o].from, f.to), {}, {}) :
                j \in {n \in NodeIndex(m, f.from) : n \in Converters(m)},
                o \in InFlows(m, f.from)}

\* The value rule r forces under x; negative when there is none.
Forced(x, r) ==
    CASE r.kind = "const" -> r.c
      [] r.kind = "mul" -> MulFrac(r.c + x[r.o], r.q)
      [] OTHER -> Sum(r.plus, x) - Sum(r.minus, x)

Least(S) == CHOOSE a \in S : \A b \in S : a <= b

\* The order the variables are assigned in, each with the rules that force
\* it at its turn (none: it is chosen): a forced variable first; else the
\* added capacities, then the flows.  plan holds the steps placed so far; at
\* most n more are placed.
RECURSIVE PlanFrom(_, _, _, _)
PlanFrom(m, rules, plan, n) ==
    LET A == {plan[j].v : j \in 1..Len(plan)}
        left == Vars(m) \ A
        app(v) == {r \in rules[v] : r.deps \subseteq A}
        forced == {v \in left : app(v) # {}}
        inv == {v \in left : ~IsFlowVar(m, v)}
        v == IF forced # {} THEN Least(forced)
             ELSE IF inv # {} THEN Least(inv) ELSE Least(left)
    IN  IF n = 0 \/ left = {} THEN plan
        ELSE PlanFrom(m, rules, Append(plan, [v |-> v, app |-> app(v)]), n - 1)

\* The plan completed from the steps placed so far, a stretch at a time.
RECURSIVE PlanAll(_, _, _)
PlanAll(m, rules, plan) ==
    IF Len(plan) = Cardinality(Vars(m)) THEN plan
    ELSE PlanAll(m, rules, PlanFrom(m, rules, plan, 12))

Plan(m) == PlanAll(m, [v \in Vars(m) |-> Rules(m, v)], << >>)

\* The values a chosen variable is tried with.
Grid(U) == {n * U : n \in {c \in {0, 1, 10, 5000} : c <= MaxInt32 \div U}}

EmptyAssignment == [v \in {} |-> 0]

\* The values the variable of plan step p may take after x: the forced one
\* when the rules that apply agree on a value that is not negative, every
\* grid value within the deviation bound otherwise.
Options(x, p, devs, U) ==
    LET vals == IF p.app # {}
                THEN LET fs == {Forced(x, r) : r \in p.app}
                     IN  IF Cardinality(fs) = 1 THEN fs ELSE {}
                ELSE {g \in Grid(U) : g = 0 \/ devs < MaxDeviations}
    IN  {g \in vals : g >= 0}

\* The partial assignments X, each with the number of its grid-chosen values
\* that are not 0, extended over plan steps n..to.
RECURSIVE Extend(_, _, _, _, _)
Extend(m, plan, n, to, X) ==
    IF n > to \/ X = {} THEN X
    ELSE Extend(m, plan, n + 1, to,
            UNION {{[x |-> p.x @@ (plan[n].v :> g),
                     devs |-> IF plan[n].app = {} /\ g # 0
                              THEN p.devs + 1 ELSE p.devs] :
                        g \in Options(p.x, plan[n], p.devs, m.unit)} : p \in X})

\* X extended over plan steps n.. to the end, a stretch at a time.
RECURSIVE ExtendAll(_, _, _, _)
ExtendAll(m, plan, n, X) ==
    IF n > Len(plan) \/ X = {} THEN X
    ELSE LET to == IF n + 11 < Len(plan) THEN n + 11 ELSE Len(plan)
         IN  ExtendAll(m, plan, n + 12, Extend(m, plan, n, to, X))

\* The points the solver may return: the complete assignments that satisfy
\* every constraint.
Solutions(m) ==
    LET X == ExtendAll(m, Plan(m), 1, {[x |-> EmptyAssignment, devs |-> 0]})
    IN  {p.x : p \in {q \in X : Feasible(m, q.x)}}

(***************************************************************************)
(* The inputs of a run.                                                    *)
(***************************************************************************)
\* Rows of the CSV file the columns are read from (T8784.csv into data,
\* T16_inv.csv into data_inv): a capacity factor for each renewable source,
\* a demand for each region.
CsvRowA ==
    [BBWIND_P |-> Dec(0, 1, 1), BBSOLPV_P |-> Dec(0, 0, 0),
     BBRORHYD_P |-> Dec(0, 5, 1), BEWIND_P |-> Dec(1, 0, 0),
     BESOLPV_P |-> Dec(0, 2, 1), demand_BBEL_FIN |-> Dec(2000, 0, 0),
     demand_BEEL_FIN |-> Dec(1500, 0, 0)]
CsvRowB ==
    [BBWIND_P |-> Dec(0, 2, 1), BBSOLPV_P |-> Dec(0, 1, 1),
     BBRORHYD_P |-> Dec(1, 0, 0), BEWIND_P |-> Dec(0, 0, 0),
     BESOLPV_P |-> Dec(1, 0, 0), demand_BBEL_FIN |-> Dec(1800, 5, 1),
     demand_BEEL_FIN |-> Dec(1600, 0, 0)]
CsvRows == {CsvRowA, CsvRowB}
\* The files of n rows, cut to the rows the horizon uses.
CsvFiles(n) == [1..Horizon(n) -> CsvRows]

\* The energysystem.add calls the ADHOC caller chooses from: the elements of
\* the scenarios of spec.md section 8.
AdhocCalls ==
    { << Bus("upstream") >>,
      << Bus("downstream") >>,
      << Source("source", "upstream" :>
            Flow(Dec(3, 0, 0), NoValue, FALSE, Zero, NoInvestment)) >>,
      << Sink("sink", "upstream" :>
            Flow(One, Scalar(Dec(2, 11, 2)), TRUE, None, NoInvestment)) >>,
      << Source("supply", "upstream" :> Flow0) >>,
      << Transformer("converter", "upstream" :> Flow0, "downstream" :> Flow0,
            "downstream" :> Dec(0, 9, 1)) >>,
      << Sink("demand", "downstream" :>
            Flow(One, Scalar(Dec(10, 0, 0)), TRUE, None, NoInvestment)) >> }
\* The objective weightings the ADHOC caller chooses from (its horizon has
\* one timestep).
AdhocWeightings ==
    {NoWeighting, Weighting(<< Dec(2, 0, 0) >>), Weighting(<< One, One >>)}

\* The call as it would be without objective_weighting=.
objective_weighting_absent(p) == NoWeighting
\* objective_weighting as program p passes it to solph.Model.
objective_weighting(p) ==
    IF p = "TI16O" THEN Weighting(var_section_length) ELSE NoWeighting

\* The labels program p asks outputlib.views.node for.
ViewLabels(p) ==
    (IF p \in {"S1", "T8784O"}
     THEN {"storage", "electricity", "wind", "pv", "pp_gas"} ELSE {})
    \cup (IF p \in {"T8784O", "TI16O"}
          THEN {"BBEL_SEC", "BBEL_FIN", "BEEL_SEC", "BEEL_FIN"} ELSE {})

(***************************************************************************)
(* The run of a program.                                                   *)
(***************************************************************************)
NoResults == [main |-> << >>, meta |-> ""]
NoFile == [written |-> FALSE]
NoPeer == [prog |-> "none"]

Init ==
    /\ prog \in Programs
    /\ pc = IF prog \in {"T8784O", "TI16O"} THEN "read" ELSE "add"
    /\ k = 0
    /\ data = << >>
    /\ es = << >>
    /\ error = "none"
    /\ model = NoModel
    /\ results = << >>
    /\ meta = ""
    /\ stored = NoResults
    /\ lpfile = NoFile
    /\ dumpfile = NoFile
    /\ views = << >>
    /\ peer = NoPeer

\* data = pd.read_csv(filename); in TI16O also data_inv, the frame its flows
\* use, and the frames split and section_length, which nothing reads.
ReadCsv ==
    /\ pc = "read"
    /\ data' \in CsvFiles(number_of_time_steps(prog))
    /\ pc' = "add"
    /\ UNCHANGED << prog, k, es, error, model, results, meta, stored, lpfile,
                    dumpfile, views, peer >>

\* One energysystem.add(...) call with the objects nodes: a rejected
\* registration ends the run.
AddCall(nodes, last) ==
    LET st == add([es |-> es, error |-> "none"], nodes)
    IN  /\ es' = st.es
        /\ error' = st.error
        /\ k' = k + 1
        /\ pc' = IF st.error # "none" THEN "failed"
                 ELSE IF last THEN "model" ELSE "add"
        /\ UNCHANGED << prog, data, model, results, meta, stored, lpfile,
                        dumpfile, views, peer >>

\* The next energysystem.add call of a script.
Add ==
    /\ pc = "add"
    /\ prog \in Scripts
    /\ k < Len(adds(prog))
    /\ AddCall(adds(prog)[k + 1], k + 1 = Len(adds(prog)))

\* An energysystem.add call of the ADHOC caller.
AdhocAdd ==
    /\ pc = "add"
    /\ prog = "ADHOC"
    /\ k < MaxAdhocAdds
    /\ \E nodes \in AdhocCalls : AddCall(nodes, FALSE)

\* model = solph.Model(energysystem[, objective_weighting=w]): a
\* configuration error ends the run without a Model.
Compile(w) ==
    LET n == number_of_time_steps(prog)
        err == CompileError(es, n, w)
    IN  /\ error' = err
        /\ model' = IF err = "none" THEN Model(es, n, w, data, Unit(prog))
                    ELSE NoModel
        /\ pc' = IF err = "none" THEN "write" ELSE "failed"
        /\ UNCHANGED << prog, k, data, es, results, meta, stored, lpfile,
                        dumpfile, views, peer >>

\* The construction as it would be if it did not wait for the last add call.
BuildModel_early ==
    /\ pc \in {"add", "model"}
    /\ k >= 1
    /\ prog \in Scripts
    /\ Compile(objective_weighting(prog))

BuildModel ==
    /\ pc = "model"
    /\ prog \in Scripts
    /\ Compile(objective_weighting(prog))

AdhocBuildModel ==
    /\ pc = "add"
    /\ prog = "ADHOC"
    /\ k >= 1
    /\ \E w \in AdhocWeightings : Compile(w)

\* if debug: model.write(filename, ...)
WriteLp ==
    /\ pc = "write"
    /\ lpfile' = [written |-> TRUE, variables |-> Cardinality(Vars(model)),
                  objective |-> model.objective]
    /\ pc' = "solve"
    /\ UNCHANGED << prog, k, data, es, error, model, results, meta, stored,
                    dumpfile, views, peer >>

\* The solve as it would be if it were submitted again after a status other
\* than optimal.
Solve_retry ==
    /\ pc = "solve"
    /\ LET sols == Solutions(model)
       IN  IF sols = {}
           THEN /\ results' = << >>
                /\ meta' = "nonoptimal"
                /\ pc' = "solve"
           ELSE /\ results' \in sols
                /\ meta' = "optimal"
                /\ pc' = "store"
    /\ UNCHANGED << prog, k, data, es, error, model, stored, lpfile, dumpfile,
                    views, peer >>

\* model.solve(solver=solver, ...): the solver returns a point of the
\* feasible region, or ends without one.
Solve ==
    /\ pc = "solve"
    /\ LET sols == Solutions(model)
       IN  IF sols = {}
           THEN /\ results' = << >>
                /\ meta' = "nonoptimal"
           ELSE /\ results' \in sols
                /\ meta' = "optimal"
    /\ pc' = "store"
    /\ UNCHANGED << prog, k, data, es, error, model, stored, lpfile, dumpfile,
                    views, peer >>

\* energysystem.results['main'] = outputlib.processing.results(model)
\* energysystem.results['meta'] = outputlib.processing.meta_results(model)
StoreResults ==
    /\ pc = "store"
    /\ stored' = [main |-> results, meta |-> meta]
    /\ pc' = IF prog \in Scripts THEN "dump" ELSE "done"
    /\ UNCHANGED << prog, k, data, es, error, model, results, meta, lpfile,
                    dumpfile, views, peer >>

\* energysystem.dump(dpath=None, filename=None)
Dump ==
    /\ pc = "dump"
    /\ dumpfile' = [written |-> TRUE, es |-> es, results |-> stored]
    /\ pc' = "restore"
    /\ UNCHANGED << prog, k, data, es, error, model, results, meta, stored,
                    lpfile, views, peer >>

\* energysystem = solph.EnergySystem(); energysystem.restore(dpath=None,
\* filename=None)
Restore ==
    /\ pc = "restore"
    /\ dumpfile.written
    /\ es' = dumpfile.es
    /\ stored' = dumpfile.results
    /\ pc' = "views"
    /\ UNCHANGED << prog, k, data, error, model, results, meta, lpfile,
                    dumpfile, views, peer >>

\* outputlib.views.node(results, label): the flows of results at label.
node(m, label) == {i \in 1..NF(m) : label \in {m.flows[i].from, m.flows[i].to}}

\* results = energysystem.results['main'] and the views.node calls
Views ==
    /\ pc = "views"
    /\ views' = [l \in ViewLabels(prog) |-> node(model, l)]
    /\ pc' = "done"
    /\ UNCHANGED << prog, k, data, es, error, model, results, meta, stored,
                    lpfile, dumpfile, peer >>

Next ==
    \/ ReadCsv
    \/ Add
    \/ AdhocAdd
    \/ BuildModel
    \/ AdhocBuildModel
    \/ WriteLp
    \/ Solve
    \/ StoreResults
    \/ Dump
    \/ Restore
    \/ Views

Spec == Init /\ [][Next]_vars

(***************************************************************************)
(* Two scripts run at the same time, as two processes of one user.  Each   *)
(* has its own interpreter state and its own LP file (ID.lp, T8784O.lp,    *)
(* TI16O.lp); energysystem.dump and energysystem.restore with dpath=None   *)
(* and filename=None use the one default file.  The run that steps is in   *)
(* prog, pc, ..., views, the other one waits in peer.                      *)
(***************************************************************************)
\* The state of a run of script p at its start.
Start(p) ==
    [prog |-> p, pc |-> IF p \in {"T8784O", "TI16O"} THEN "read" ELSE "add",
     k |-> 0, data |-> << >>, es |-> << >>, error |-> "none",
     model |-> NoModel, results |-> << >>, meta |-> "", stored |-> NoResults,
     lpfile |-> NoFile, views |-> << >>]

\* The scheduler takes the processor from one run and gives it to the other.
Switch ==
    /\ peer # NoPeer
    /\ peer' = [prog |-> prog, pc |-> pc, k |-> k, data |-> data, es |-> es,
                error |-> error, model |-> model, results |-> results,
                meta |-> meta, stored |-> stored, lpfile |-> lpfile,
                views |-> views]
    /\ prog' = peer.prog
    /\ pc' = peer.pc
    /\ k' = peer.k
    /\ data' = peer.data
    /\ es' = peer.es
    /\ error' = peer.error
    /\ model' = peer.model
    /\ results' = peer.results
    /\ meta' = peer.meta
    /\ stored' = peer.stored
    /\ lpfile' = peer.lpfile
    /\ views' = peer.views
    /\ UNCHANGED dumpfile

\* T8784O or TI16O starts while a run of S1 waits to start.
ParInit ==
    /\ prog \in {"T8784O", "TI16O"}
    /\ pc = "read"
    /\ k = 0
    /\ data = << >>
    /\ es = << >>
    /\ error = "none"
    /\ model = NoModel
    /\ results = << >>
    /\ meta = ""
    /\ stored = NoResults
    /\ lpfile = NoFile
    /\ dumpfile = NoFile
    /\ views = << >>
    /\ peer = Start("S1")

ParNext ==
    \/ ReadCsv
    \/ Add
    \/ BuildModel
    \/ WriteLp
    \/ Solve
    \/ StoreResults
    \/ Dump
    \/ Restore
    \/ Views
    \/ Switch

ParSpec == ParInit /\ [][ParNext]_vars

(***************************************************************************)
(* The properties of a run.                                                *)
(***************************************************************************)
\* The solver returned a point.
Solved == meta = "optimal"
\* The value of flow i at timestep t, and the added capacity of flow i.
FlowValue(i, t) == results[FV(model, i, t)]
AddedCapacity(i) == results[IV(model, i)]
\* The flows of the model from one label to another, into and out of a label.
FlowsAt(from, to) ==
    {i \in 1..NF(model) : model.flows[i].from = from /\ model.flows[i].to = to}
FlowsInto(l) == {i \in 1..NF(model) : model.flows[i].to = l}
FlowsOutOf(l) == {i \in 1..NF(model) : model.flows[i].from = l}
RECURSIVE Total(_, _)
Total(I, t) == IF I = {} THEN 0
               ELSE LET i == CHOOSE j \in I : TRUE
                    IN  FlowValue(i, t) + Total(I \ {i}, t)
\* The ADHOC caller has registered exactly the labels L and has solved.
Scenario(L) ==
    /\ prog = "ADHOC"
    /\ Labels(es) = L
    /\ pc \in {"store", "done"}

\* C1: for every registered bus and every timestep of the horizon, in every
\* solution the solver returns the flows into the bus at t sum to the flows
\* out of the bus at t; nothing is carried from one timestep to the next.
C1_BusBalance ==
    Solved =>
        \A n \in 1..Len(es) : es[n].kind = "Bus" =>
            \A t \in 1..Horizon(number_of_time_steps(prog)) :
                Total(FlowsInto(es[n].label), t) = Total(FlowsOutOf(es[n].label), t)

\* A solved T8784O run over the whole horizon in which energy passes through
\* the bus BBEL_SEC at the last timestep.
C1_Witness ==
    /\ prog = "T8784O"
    /\ Solved
    /\ model.T = MaxT
    /\ Total(FlowsInto("BBEL_SEC"), MaxT) > 0
    /\ Total(FlowsOutOf("BBEL_SEC"), MaxT) > 0

\* The profile of flow attributes a at timestep t, read from the literal or
\* from the CSV rows of the run.
ProfileAt(a, t) ==
    IF a.actual_value.src = "scalar" THEN DecToFrac(a.actual_value.v)
    ELSE DecToFrac(data[t][a.actual_value.col])

\* C2: every flow declared fixed=True has, at every timestep, exactly the
\* value profile[t] x capacity; the capacity is the nominal value, or the
\* invested capacity when the flow has an Investment; S1's DEMAND is
\* 2.1101 x 1 at its single timestep.
C2_FixedFlows ==
    Solved =>
        /\ \A i \in 1..NF(model), t \in 1..model.T :
              LET a == model.flows[i].attr
                  capacity == IF a.investment.on THEN AddedCapacity(i)
                              ELSE ToUnits(a.nominal_value, Unit(prog))
              IN  a.fixed => FlowValue(i, t) = MulFrac(capacity, ProfileAt(a, t))
        /\ prog = "S1" =>
              /\ FlowsAt("ELECTRICITY", "DEMAND") # {}
              /\ \A i \in FlowsAt("ELECTRICITY", "DEMAND") :
                    FlowValue(i, 1) = ToUnits(Dec(2, 1101, 4), Unit("S1"))

\* A solved TI16O run in which a fixed flow with an Investment carries energy
\* at the last timestep.
C2_Witness ==
    /\ prog = "TI16O"
    /\ Solved
    /\ \E i \in 1..NF(model) :
          /\ model.flows[i].attr.fixed
          /\ model.flows[i].attr.investment.on
          /\ AddedCapacity(i) > 0
          /\ FlowValue(i, MaxT) > 0

\* C3: every flow that is not fixed has 0 <= flow(t) at every timestep and
\* flow(t) <= its nominal value when one is given, so the nominal_value=0
\* flows of BBHCO_P and BELIG_P in T8784O are 0; a flow with neither a
\* nominal value nor an Investment has only the lower bound 0: its flow
\* constraint accepts the largest value there is.
C3_FreeFlowBounds ==
    Solved =>
        /\ \A i \in 1..NF(model), t \in 1..model.T :
              LET a == model.flows[i].attr
              IN  ~a.fixed =>
                    /\ FlowValue(i, t) >= 0
                    /\ (~a.investment.on /\ ~IsNone(a.nominal_value)) =>
                          LeqCap(FlowValue(i, t), a.nominal_value, Unit(prog))
                    /\ (~a.investment.on /\ IsNone(a.nominal_value)) =>
                          FlowConstraint(model,
                              [results EXCEPT ![FV(model, i, t)] = MaxInt32], i, t)
        /\ prog = "T8784O" =>
              \A l \in {"BBHCO_P", "BELIG_P"} :
                  /\ FlowsOutOf(l) # {}
                  /\ \A i \in FlowsOutOf(l), t \in 1..model.T : FlowValue(i, t) = 0

\* A solved T8784O run in which a flow with a nominal value and a flow built
\* with solph.Flow() both carry energy.
C3_Witness ==
    /\ prog = "T8784O"
    /\ Solved
    /\ \E i \in 1..NF(model), t \in 1..model.T :
          /\ ~model.flows[i].attr.fixed
          /\ ~IsNone(model.flows[i].attr.nominal_value)
          /\ FlowValue(i, t) > 0
    /\ \E i \in 1..NF(model), t \in 1..model.T :
          /\ model.flows[i].attr = Flow0
          /\ FlowValue(i, t) > 0

\* C4: a flow with an Investment has one capacity c for the whole horizon
\* (existing plus what is added) with 0 <= c <= existing + maximum and
\* flow(t) <= c at every timestep; maximum=0 is accepted and forces the
\* flows of BBHCO_P and BELIG_P in TI16O to 0; without a maximum the
\* investment constraint accepts the largest value there is.
C4_InvestmentBounds ==
    /\ (prog = "TI16O" /\ pc \notin {"read", "add", "model"}) => model.built
    /\ Solved =>
        /\ \A i \in 1..NF(model) :
              LET inv == model.flows[i].attr.investment
                  existing == ToUnits(inv.existing, Unit(prog))
              IN  inv.on =>
                    /\ AddedCapacity(i) >= 0
                    /\ ~IsNone(inv.maximum) =>
                          LeqCap(AddedCapacity(i), inv.maximum, Unit(prog))
                    /\ IsNone(inv.maximum) =>
                          InvestmentConstraint(model,
                              [results EXCEPT ![IV(model, i)] = MaxInt32], i)
                    /\ \A t \in 1..model.T :
                          FlowValue(i, t) <= existing + AddedCapacity(i)
        /\ prog = "TI16O" =>
              \A l \in {"BBHCO_P", "BELIG_P"} :
                  /\ FlowsOutOf(l) # {}
                  /\ \A i \in FlowsOutOf(l) :
                        /\ model.flows[i].attr.investment.on
                        /\ AddedCapacity(i) = 0
                        /\ \A t \in 1..model.T : FlowValue(i, t) = 0

\* A solved TI16O run in which capacity is added to a flow.
C4_Witness ==
    /\ prog = "TI16O"
    /\ Solved
    /\ \E i \in 1..NF(model) :
          /\ model.flows[i].attr.investment.on
          /\ ~model.flows[i].attr.fixed
          /\ AddedCapacity(i) > 0

\* C5: the objective has one term flow(t) x variable_cost x period_weight(t)
\* for every flow with a variable cost and every timestep, and one term
\* added_capacity x ep_costs, without a weight, for every flow with an
\* Investment; period_weight(t) is 1 in S1 and T8784O, where no weighting is
\* passed, and var_section_length[t] in TI16O.
C5_Objective ==
    (prog \in Scripts /\ model.built) =>
        LET costed == {i \in 1..NF(model) :
                          ~IsNone(model.flows[i].attr.variable_costs)}
            investable == {i \in 1..NF(model) : model.flows[i].attr.investment.on}
            weight(t) == IF prog = "TI16O" THEN var_section_length[t] ELSE One
        IN  /\ model.objective.variable =
                  {[from |-> model.flows[i].from, to |-> model.flows[i].to,
                    t |-> t,
                    variable_costs |-> model.flows[i].attr.variable_costs,
                    weight |-> weight(t)] : i \in costed, t \in 1..model.T}
            /\ model.objective.investment =
                  {[from |-> model.flows[i].from, to |-> model.flows[i].to,
                    ep_costs |-> model.flows[i].attr.investment.ep_costs] :
                      i \in investable}
            /\ Cardinality(model.objective.variable) = Cardinality(costed) * model.T
            /\ Cardinality(model.objective.investment) = Cardinality(investable)

\* A TI16O model whose objective has a term at the last timestep, weighted
\* by var_section_length, and a term for an Investment.
C5_Witness ==
    /\ prog = "TI16O"
    /\ model.built
    /\ \E c \in model.objective.variable : c.t = MaxT /\ c.weight = var_section_length[MaxT]
    /\ model.objective.investment # {}

\* C6: one bus, one source of capacity 3.0 and cost 0, one sink with a fixed
\* demand of 2.11, one timestep: the run solves to source_flow = 2.11 with
\* objective 0.
C6_ScenarioSourceSink ==
    Scenario({"upstream", "source", "sink"}) =>
        /\ Solved
        /\ FlowsAt("source", "upstream") # {}
        /\ \A i \in FlowsAt("source", "upstream") :
              FlowValue(i, 1) = ToUnits(Dec(2, 11, 2), Unit("ADHOC"))
        /\ model.objective.investment = {}
        /\ VariableCosts(model, results, model.objective.variable) = Frac(0, 1)

\* The scenario of C6 has been registered and solved.
C6_Witness ==
    /\ Scenario({"upstream", "source", "sink"})
    /\ model.T = 1
    /\ Solved
    /\ model.objective.variable # {}

\* The conversion factor node n declares for bus b, 1 without an entry.
DeclaredFactor(n, b) ==
    IF b \in DOMAIN n.conversion_factors
    THEN DecToFrac(n.conversion_factors[b]) ELSE Frac(1, 1)

\* C7: for every Transformer with one input and one output and every
\* timestep, input(t) x factor(output bus) = output(t) x factor(input bus),
\* a bus without an entry counting as 1; two buses joined by a converter of
\* factor 0.9 with a fixed demand of 10 downstream solve to an upstream flow
\* of 10 / 0.9, and the outputs of BBTRANS and BETRANS are 0.9 of their
\* inputs.
C7_ConverterRelation ==
    /\ Solved =>
          \A n \in 1..Len(es) :
              (/\ es[n].kind = "Transformer"
               /\ Cardinality(DOMAIN es[n].inputs) = 1
               /\ Cardinality(DOMAIN es[n].outputs) = 1) =>
                  \A i \in FlowsInto(es[n].label), o \in FlowsOutOf(es[n].label),
                     t \in 1..model.T :
                      LET fo == DeclaredFactor(es[n], model.flows[o].to)
                          fi == DeclaredFactor(es[n], model.flows[i].from)
                      IN  MulFrac(FlowValue(i, t), Frac(fo.n * fi.d, fo.d * fi.n))
                              = FlowValue(o, t)
    /\ (Solved /\ prog \in {"T8784O", "TI16O"}) =>
          \A l \in {"BBTRANS", "BETRANS"} :
              /\ FlowsInto(l) # {} /\ FlowsOutOf(l) # {}
              /\ \A i \in FlowsInto(l), o \in FlowsOutOf(l), t \in 1..model.T :
                    10 * FlowValue(o, t) = 9 * FlowValue(i, t)
    /\ Scenario({"upstream", "downstream", "supply", "converter", "demand"}) =>
          /\ Solved
          /\ FlowsAt("upstream", "converter") # {}
          /\ \A i \in FlowsAt("upstream", "converter") :
                9 * FlowValue(i, 1) = 10 * ToUnits(Dec(10, 0, 0), Unit("ADHOC"))

\* The scenario of C7 has been registered and solved: the demand of 10 is
\* met through the converter.
C7_Witness ==
    /\ Scenario({"upstream", "downstream", "supply", "converter", "demand"})
    /\ Solved
    /\ \E i \in FlowsAt("upstream", "converter") : FlowValue(i, 1) > 0
    /\ \E o \in FlowsAt("converter", "downstream") :
          FlowValue(o, 1) = ToUnits(Dec(10, 0, 0), Unit("ADHOC"))

\* The outcome of one energysystem.add call with the objects nodes.
Registered(nodes) == add([es |-> es, error |-> "none"], nodes)

\* C8: registering a bus or node under a label that is already registered
\* fails with DuplicateLabelError; the failure comes while the graph is
\* built, before any LP is assembled, and leaves no Model; the labels of
\* each of the three scripts are pairwise distinct, so none of their
\* registrations fails.
C8_DuplicateLabel ==
    /\ Cardinality(Labels(es)) = Len(es)
    /\ \A nodes \in AdhocCalls :
          nodes[1].label \in Labels(es) =>
              /\ Registered(nodes).error = "DuplicateLabelError"
              /\ Registered(nodes).es = es
    /\ error = "DuplicateLabelError" =>
          /\ pc = "failed"
          /\ model = NoModel
          /\ lpfile = NoFile
          /\ results = << >>
    /\ prog \in Scripts =>
          /\ error \notin {"DuplicateLabelError", "DanglingReferenceError"}
          /\ pc \notin {"read", "add"} =>
                Labels(es) = UNION {{adds(prog)[c][n].label :
                                        n \in 1..Len(adds(prog)[c])} :
                                    c \in 1..Len(adds(prog))}

\* A run of the ADHOC caller that a colliding label has ended.
C8_Witness ==
    /\ prog = "ADHOC"
    /\ error = "DuplicateLabelError"
    /\ Len(es) >= 2

\* C9: compiling with an objective weighting whose length is not the number
\* of timesteps fails with WeightingLengthError and leaves no Model; TI16O
\* passes 16 entries for its 16 timesteps, so its compilation does not fail
\* on that ground.
C9_WeightingLength ==
    /\ \A w \in AdhocWeightings \cup {objective_weighting(prog)} :
          (w.given /\ Len(w.seq) # number_of_time_steps(prog)) =>
              CompileError(es, number_of_time_steps(prog), w) = "WeightingLengthError"
    /\ error = "WeightingLengthError" =>
          /\ pc = "failed"
          /\ model = NoModel
          /\ lpfile = NoFile
          /\ results = << >>
    /\ prog = "TI16O" =>
          /\ objective_weighting(prog).given
          /\ Len(objective_weighting(prog).seq) = 16
          /\ number_of_time_steps(prog) = 16
          /\ error # "WeightingLengthError"
          /\ pc \notin {"read", "add", "model"} => model.built

\* A run of the ADHOC caller that a weighting of the wrong length has ended.
C9_Witness ==
    /\ prog = "ADHOC"
    /\ error = "WeightingLengthError"
    /\ es # << >>

\* C10: every registered node has the shape of its variant: a Source has no
\* input flow, a Sink has no output flow, a Transformer has at least one
\* input flow and at least one output flow.
C10_NodeShapes ==
    prog \in Scripts =>
        \A n \in 1..Len(es) :
            /\ es[n].kind = "Source" => DOMAIN es[n].inputs = {}
            /\ es[n].kind = "Sink" => DOMAIN es[n].outputs = {}
            /\ es[n].kind = "Transformer" =>
                  /\ DOMAIN es[n].inputs # {}
                  /\ DOMAIN es[n].outputs # {}

\* C11: the buses with an entry in a Transformer's conversion_factors are
\* exactly the buses of its inputs and outputs: no connected bus is missing
\* and no unconnected bus has an entry.
C11_FactorMapping ==
    prog \in Scripts =>
        \A n \in 1..Len(es) :
            es[n].kind = "Transformer" =>
                DOMAIN es[n].conversion_factors
                    = DOMAIN es[n].inputs \cup DOMAIN es[n].outputs

\* The number of objects the add calls of program p register.
RECURSIVE Objects(_, _)
Objects(calls, c) ==
    IF c > Len(calls) THEN 0 ELSE Len(calls[c]) + Objects(calls, c + 1)

\* A step of a script's run keeps the two phases apart.
TwoPhaseStep ==
    prog \in Scripts =>
        /\ (es' # es \/ k' # k) => (pc = "add" /\ ~model.built)
        /\ pc \in {"model", "write", "solve"} => es' = es
        /\ model' # model => (pc = "model" /\ model = NoModel /\ model'.built)

\* C12: a run of a script is two-phase: every energysystem.add comes before
\* the Model is constructed, the Model is constructed exactly once, and the
\* graph does not change between the construction and the solve.
C12_TwoPhase ==
    /\ [](prog \in Scripts =>
            /\ model.built =>
                  /\ k = Len(adds(prog))
                  /\ Len(es) = Objects(adds(prog), 1)
                  /\ model.nodes = es
            /\ pc \in {"write", "solve"} => model.built)
    /\ [][TwoPhaseStep]_vars

\* A script's run about to solve, every one of its objects registered and
\* its Model built.
C12_Witness ==
    /\ prog = "T8784O"
    /\ pc = "solve"
    /\ model.built
    /\ k = Len(T8784O_adds)
    /\ Len(es) > k

\* A step of a run submits the model at most once and takes the solver's
\* status as the result.
SolveOnceStep ==
    /\ pc = "solve" => (pc' = "store" /\ error' = error /\ model' = model)
    /\ pc' = "solve" => pc = "write"
    /\ pc' = "write" => ~model.built
    /\ (results' # results \/ meta' # meta) => pc = "solve"
    /\ pc = "store" => stored' = [main |-> results, meta |-> meta]

\* C13: the status the solver reports is a result handed to the caller and
\* no error; a run submits its model exactly once and neither solves again
\* nor changes the problem.
C13_SolverStatus ==
    /\ [](/\ meta \in {"", "optimal", "nonoptimal"}
          /\ meta # "" => (error = "none" /\ pc \notin {"failed", "solve"})
          /\ meta = "nonoptimal" => results = << >>
          /\ pc \in {"dump", "restore", "views", "done"} => stored.meta = meta)
    /\ [][SolveOnceStep]_vars

\* A run whose solver found no point has ended, with that status stored and
\* no error.
C13_Witness ==
    /\ meta = "nonoptimal"
    /\ pc = "done"
    /\ stored.meta = "nonoptimal"
    /\ error = "none"

\* C14: runs of different scripts that go on at the same time share no
\* state: whatever the interleaving, a run ends with the energy system and
\* the results it ends with alone, which are the nodes of its own Model and
\* the values and status its own solve returned.
C14_NoSharedState ==
    (prog \in Scripts /\ pc = "done") =>
        /\ es = model.nodes
        /\ Labels(es) = UNION {{adds(prog)[c][n].label :
                                   n \in 1..Len(adds(prog)[c])} :
                               c \in 1..Len(adds(prog))}
        /\ stored = [main |-> results, meta |-> meta]

\* CSV rows beside CsvRows: no demand and no wind, sun or water; full
\* capacity factors against a small demand (a surplus in Brandenburg and in
\* Berlin); the largest demand that fits a flow value.
CsvRowNone ==
    [BBWIND_P |-> Zero, BBSOLPV_P |-> Zero, BBRORHYD_P |-> Zero,
     BEWIND_P |-> Zero, BESOLPV_P |-> Zero, demand_BBEL_FIN |-> Zero,
     demand_BEEL_FIN |-> Zero]
CsvRowSurplus ==
    [BBWIND_P |-> One, BBSOLPV_P |-> One, BBRORHYD_P |-> One,
     BEWIND_P |-> One, BESOLPV_P |-> One, demand_BBEL_FIN |-> Dec(100, 0, 0),
     demand_BEEL_FIN |-> Dec(10, 5, 1)]
CsvRowMax ==
    [BBWIND_P |-> Zero, BBSOLPV_P |-> Dec(0, 1, 1), BBRORHYD_P |-> Zero,
     BEWIND_P |-> Zero, BESOLPV_P |-> Zero,
     demand_BBEL_FIN |-> Dec((MaxInt32 \div Unit("T8784O")) - 1000, 0, 0),
     demand_BEEL_FIN |-> Dec((MaxInt32 \div Unit("T8784O")) - 1000, 9999, 4)]
ProfileRows == CsvRows \cup {CsvRowNone, CsvRowSurplus, CsvRowMax}

\* The two regions of T8784O and TI16O: the labels of the secondary and the
\* final electricity bus, the transmission line between them, and the
\* sinks and the backstop at the final bus.
Regions ==
    {[sec |-> "BBEL_SEC", fin |-> "BBEL_FIN", trans |-> "BBTRANS",
      excess |-> "excess_BBEL_FIN", demand |-> "demand_BBEL_FIN",
      backstop |-> "BBBACKSTOP_FIN"],
     [sec |-> "BEEL_SEC", fin |-> "BEEL_FIN", trans |-> "BETRANS",
      excess |-> "excess_BEEL_FIN", demand |-> "demand_BEEL_FIN",
      backstop |-> "BEBACKSTOP_FIN"]}

\* The point of model m in which nothing is invested and no plant or trade
\* line runs: a fixed flow has the value of its profile, the transmission
\* line of a region carries what the fixed sources feed into its secondary
\* bus, the backstop supplies what the demand exceeds the line's output by
\* and the excess sink takes what the output exceeds the demand by.
BackstopPoint(m) ==
    LET fixed(i, t) ==
            LET a == m.flows[i].attr
            IN  IF ~IsFixed(a) \/ a.investment.on THEN 0
                ELSE MulFrac(ToUnits(a.nominal_value, m.unit), Profile(m, a, t))
        fed(r, t) ==
            Sum({i \in 1..NF(m) : m.flows[i].to = r.sec}, [i \in 1..NF(m) |-> fixed(i, t)])
        sent(r, t) == MulFrac(fed(r, t), Frac(9, 10))
        asked(r, t) ==
            Sum({i \in 1..NF(m) : m.flows[i].to = r.demand}, [i \in 1..NF(m) |-> fixed(i, t)])
        flow(i, t) ==
            LET f == m.flows[i]
                at(l) == CHOOSE r \in Regions :
                            l \in {r.sec, r.fin, r.trans, r.excess, r.demand, r.backstop}
            IN  IF IsFixed(f.attr) THEN fixed(i, t)
                ELSE IF \E r \in Regions : f.from = r.sec /\ f.to = r.trans
                     THEN fed(at(f.to), t)
                ELSE IF \E r \in Regions : f.from = r.trans /\ f.to = r.fin
                     THEN sent(at(f.from), t)
                ELSE IF \E r \in Regions : f.to = r.excess
                     THEN IF sent(at(f.to), t) > asked(at(f.to), t)
                          THEN sent(at(f.to), t) - asked(at(f.to), t) ELSE 0
                ELSE IF \E r \in Regions : f.from = r.backstop
                     THEN IF asked(at(f.from), t) > sent(at(f.from), t)
                          THEN asked(at(f.from), t) - sent(at(f.from), t) ELSE 0
                ELSE 0
    IN  [v \in Vars(m) |->
            IF IsFlowVar(m, v) THEN flow(FlowOf(m, v), StepOf(m, v)) ELSE 0]

\* The Model the running program compiles from the registered energy system
\* and the CSV rows d.
ModelOf(d) ==
    Model(es, number_of_time_steps(prog), objective_weighting(prog), d, Unit(prog))

\* C15: in T8784O and TI16O the backstop covers the demand and the excess
\* sink takes any surplus: whatever the demand and the renewable profiles,
\* the Model has a feasible point, the one in which the backstop supplies
\* the whole shortfall and the excess sink takes the whole surplus at every
\* timestep.
C15_BackstopFeasible ==
    (prog \in {"T8784O", "TI16O"} /\ pc = "write") =>
        \A d \in [1..model.T -> ProfileRows] :
            Feasible(ModelOf(d), BackstopPoint(ModelOf(d)))

\* T8784O has compiled; with a surplus at the first timestep and a shortfall
\* at the last, the point has the excess sink of Brandenburg take energy at
\* the first and its backstop supply energy at the last.
C15_Witness ==
    /\ prog = "T8784O"
    /\ pc = "write"
    /\ LET d == [t \in 1..model.T |-> IF t = 1 THEN CsvRowSurplus ELSE CsvRowMax]
           m == ModelOf(d)
           x == BackstopPoint(m)
       IN  /\ \E i \in 1..NF(m) :
                 m.flows[i].to = "excess_BBEL_FIN" /\ x[FV(m, i, 1)] > 0
           /\ \E i \in 1..NF(m) :
                 m.flows[i].from = "BBBACKSTOP_FIN" /\ x[FV(m, i, m.T)] > 0
           /\ Feasible(m, x)

\* The value under x of objective term c of model m, in flow units:
\* flow(t) x variable_cost x period_weight(t).
TermCost(m, x, c) ==
    LET i == CHOOSE j \in 1..NF(m) :
                m.flows[j].from = c.from /\ m.flows[j].to = c.to
    IN  MulFrac(MulFrac(x[FV(m, i, c.t)], DecToFrac(c.variable_costs)),
                DecToFrac(c.weight))

\* The S1 Model as it would be with actual_value=v on the DEMAND flow.
S1WithDemand(v) ==
    Model([n \in 1..Len(es) |->
              IF es[n].label # "DEMAND" THEN es[n]
              ELSE [es[n] EXCEPT !.inputs =
                       [b \in DOMAIN es[n].inputs |->
                           [es[n].inputs[b] EXCEPT !.actual_value = Scalar(v)]]]],
          S1_number_of_time_steps, objective_weighting("S1"), data, Unit("S1"))

\* Whether the equalities of model m leave no variable to choose: each one
\* is forced at its turn, so m has at most one feasible point.
Determined(m) == \A n \in 1..Len(Plan(m)) : Plan(m)[n].app # {}

\* Demands above the capacity 3.1101 of the power plant's output.
S1_Excessive == {Dec(3, 1102, 4), Dec(4, 0, 0), Dec(10, 5, 1)}

\* C16: the S1 model has exactly one feasible assignment: the power plant's
\* output is 2.1101, its gas input and the gas import are 2.1101 x 1.1101,
\* the objective is 2.1101 x 9.1202; with a demand above 3.1101 the model
\* has no feasible point, with a demand of 3.1101 it still has one.
C16_S1Unique ==
    (prog = "S1" /\ model.built) =>
        /\ model.T = 1
        /\ Determined(model)
        /\ Cardinality(Solutions(model)) = 1
        /\ \A x \in Solutions(model) :
              /\ \A i \in FlowsAt("GAS_POWERPLANT", "ELECTRICITY") \cup
                          FlowsAt("ELECTRICITY", "DEMAND") :
                    x[FV(model, i, 1)] = ToUnits(Dec(2, 1101, 4), Unit("S1"))
              /\ \A i \in FlowsAt("GAS", "GAS_POWERPLANT") \cup
                          FlowsAt("GAS_IMPORT", "GAS") :
                    x[FV(model, i, 1)] = ToUnits(Dec(2, 34242201, 8), Unit("S1"))
              /\ Cardinality(model.objective.variable) = 1
              /\ model.objective.investment = {}
              /\ \A c \in model.objective.variable :
                    TermCost(model, x, c) = ToUnits(Dec(19, 24453402, 8), Unit("S1"))
        /\ NF(model) = 4
        /\ Solved => results \in Solutions(model)
        /\ Cardinality(Solutions(S1WithDemand(Dec(3, 1101, 4)))) = 1
        /\ \A v \in S1_Excessive :
              /\ Determined(S1WithDemand(v))
              /\ Solutions(S1WithDemand(v)) = {}

\* S1 has solved, and its model with a demand of 3.1102 has no point.
C16_Witness ==
    /\ prog = "S1"
    /\ Solved
    /\ pc = "done"
    /\ \E i \in FlowsAt("GAS_IMPORT", "GAS") : FlowValue(i, 1) > 0
    /\ ~Feasible(S1WithDemand(Dec(3, 1102, 4)),
                 [v \in Vars(model) |->
                     IF v \in {FV(model, i, 1) : i \in FlowsAt("GAS", "GAS_POWERPLANT")
                                                   \cup FlowsAt("GAS_IMPORT", "GAS")}
                     THEN MulFrac(ToUnits(Dec(3, 1102, 4), Unit("S1")), Frac(11101, 10000))
                     ELSE ToUnits(Dec(3, 1102, 4), Unit("S1"))])

\* The epc_ variable computed for the technology and region of each label.
EpcName ==
    ("BBNGA_P" :> "epc_BBNGA_P") @@ ("BBHCO_P" :> "epc_BBHCO_P")
    @@ ("BBLIG_P" :> "epc_BBLIG_P") @@ ("BBOIL_P" :> "epc_BBOIL_P")
    @@ ("BBBIO_P" :> "epc_BBBIO_P") @@ ("BBSOLPV_P" :> "epc_BBSOLPV_P")
    @@ ("BBWIND_P" :> "epc_BBWIND_P") @@ ("BBRORHYD_P" :> "epc_BBRORHYD_P")
    @@ ("BENGA_P" :> "epc_BENGA_P") @@ ("BEHCO_P" :> "epc_BEHCO_P")
    @@ ("BELIG_P" :> "epc_BELIG_P") @@ ("BEOIL_P" :> "epc_BEOIL_P")
    @@ ("BEBIO_P" :> "epc_BEBIO_P") @@ ("BESOLPV_P" :> "epc_BESOLPV_P")
    @@ ("BEWIND_P" :> "epc_BEWIND_P")

\* The flows of the registered nodes that have an Investment, as pairs of
\* the node's label and the epc_ variable its ep_costs is read from.
Investments ==
    UNION {{[label |-> es[n].label, ep_costs |-> es[n].outputs[b].investment.ep_costs] :
               b \in {c \in DOMAIN es[n].outputs : es[n].outputs[c].investment.on}} :
           n \in 1..Len(es)}

\* C17: in TI16O the Investment on the flow of each node X has
\* ep_costs = epc_X, the annuity computed for X, and once all nodes are
\* registered every epc_ variable that is computed is used by exactly one
\* flow.
C17_OwnCosts ==
    prog = "TI16O" =>
        /\ \A v \in Investments :
              /\ v.label \in DOMAIN EpcName
              /\ v.ep_costs = EpcName[v.label]
        /\ pc \notin {"read", "add"} =>
              /\ DOMAIN TI16O_epc = {EpcName[l] : l \in DOMAIN EpcName}
              /\ \A e \in DOMAIN TI16O_epc :
                    Cardinality({v \in Investments : v.ep_costs = e}) = 1

\* The sum of the first n entries of a weighting, in tenths of an hour.
RECURSIVE Hours(_, _)
Hours(w, n) == IF n = 0 THEN 0 ELSE ToUnits(w[n], 10) + Hours(w, n - 1)

\* C18: the weights TI16O passes as objective_weighting are the 16 entries
\* of var_section_length, each of them positive, and they sum to exactly
\* 8784 hours, the number_of_time_steps of T8784O.
C18_WeightsCoverYear ==
    (prog = "TI16O" /\ model.built) =>
        LET w == objective_weighting(prog)
        IN  /\ w.given
            /\ w.seq = var_section_length
            /\ Len(w.seq) = 16
            /\ \A t \in 1..Len(w.seq) :
                  /\ Representable(w.seq[t], 10)
                  /\ ToUnits(w.seq[t], 10) > 0
            /\ Hours(w.seq, Len(w.seq)) = 10 * T8784O_number_of_time_steps
            /\ \A t \in 1..model.T : model.objective_weighting[t] = w.seq[t]

\* A TI16O model built with the weighting, about to be solved.
C18_Witness ==
    /\ prog = "TI16O"
    /\ pc = "solve"
    /\ model.built
    /\ model.objective_weighting[1] = var_section_length[1]
    /\ number_of_time_steps("T8784O") = 8784

\* C19: every label a script has passed to outputlib.views.node is the label
\* of a bus or node that the script registered.
C19_ViewsOfRegistered ==
    (prog \in Scripts /\ pc = "done") =>
        \A l \in DOMAIN views : l \in Labels(model.nodes)

\* A step of the run that holds the processor, from solve to the views: the
\* steps come in the order solve, store, dump, restore, read, and the
\* restore gives back what this run stored and dumped.
ReadOwnStep ==
    (prog \in Scripts /\ prog' = prog /\ pc' # pc) =>
        /\ pc' = "store" => pc = "solve"
        /\ pc' = "dump" => (pc = "store" /\ stored' = [main |-> results, meta |-> meta])
        /\ pc' = "restore" => (pc = "dump" /\ dumpfile'.results = stored)
        /\ pc' = "views" =>
              /\ pc = "restore"
              /\ stored' = stored
              /\ stored' = [main |-> results, meta |-> meta]
              /\ es' = es
        /\ pc' = "done" => (pc = "views" /\ UNCHANGED << stored, es >>)

\* C20: each run solves, stores its results, dumps, restores and then reads,
\* in this order, and the results it reads after the restore are exactly
\* those it stored and dumped itself, whatever the steps of another
\* script's run in between.
C20_ReadOwnResults == [][ReadOwnStep]_vars

====
